---- MODULE Spec2Model ----
(***************************************************************************)
(* Verification model of the ballistics crate (src/src/equations.rs and    *)
(* src/src/constants.rs).                                                  *)
(*                                                                         *)
(* Every quantity type of the crate is a tuple struct around one f64, and  *)
(* every equation function is one f64 expression.  The model therefore     *)
(* carries an implementation of IEEE-754 binary64 arithmetic (round to     *)
(* nearest, ties to even; signed zeros, subnormals, infinities, one NaN)   *)
(* built on multi-limb naturals, and translates each equation function     *)
(* operation by operation.  The state is what a caller of the library      *)
(* holds: the derived quantities it has obtained so far and the last call  *)
(* it made.                                                                *)
(***************************************************************************)
EXTENDS Integers, Sequences, FiniteSets

(***************************************************************************)
(* Multi-limb naturals: little-endian sequences of limbs in 0..Base-1,     *)
(* without leading zero limbs; <<>> is zero.                               *)
(***************************************************************************)
Base == 2^15

RECURSIVE BTrim(_)
BTrim(a) ==
    IF a = <<>> THEN a
    ELSE IF a[Len(a)] = 0 THEN BTrim(SubSeq(a, 1, Len(a) - 1))
    ELSE a

RECURSIVE BFromInt(_)
BFromInt(n) == IF n = 0 THEN <<>> ELSE <<n % Base>> \o BFromInt(n \div Base)

RECURSIVE BCmpFrom(_, _, _)
BCmpFrom(a, b, i) ==
    IF i = 0 THEN 0
    ELSE IF a[i] < b[i] THEN -1
    ELSE IF a[i] > b[i] THEN 1
    ELSE BCmpFrom(a, b, i - 1)

BCmp(a, b) ==
    IF Len(a) < Len(b) THEN -1
    ELSE IF Len(a) > Len(b) THEN 1
    ELSE BCmpFrom(a, b, Len(a))

RECURSIVE BAddC(_, _, _)
BAddC(a, b, c) ==
    IF a = <<>> /\ b = <<>> THEN (IF c = 0 THEN <<>> ELSE <<c>>)
    ELSE LET x == IF a = <<>> THEN 0 ELSE Head(a)
             y == IF b = <<>> THEN 0 ELSE Head(b)
             t == x + y + c
         IN  <<t % Base>> \o BAddC(IF a = <<>> THEN a ELSE Tail(a),
                                   IF b = <<>> THEN b ELSE Tail(b),
                                   t \div Base)

BAdd(a, b) == BAddC(a, b, 0)

\* a - b - c for a >= b + c
RECURSIVE BSubC(_, _, _)
BSubC(a, b, c) ==
    IF a = <<>> THEN <<>>
    ELSE LET y == IF b = <<>> THEN 0 ELSE Head(b)
             t == Head(a) - y - c
         IN  <<IF t < 0 THEN t + Base ELSE t>>
               \o BSubC(Tail(a), IF b = <<>> THEN b ELSE Tail(b),
                        IF t < 0 THEN 1 ELSE 0)

BSub(a, b) == BTrim(BSubC(a, b, 0))

RECURSIVE BMulSmallC(_, _, _)
BMulSmallC(a, k, c) ==
    IF a = <<>> THEN (IF c = 0 THEN <<>> ELSE <<c>>)
    ELSE LET t == Head(a) * k + c
         IN  <<t % Base>> \o BMulSmallC(Tail(a), k, t \div Base)

BMulSmall(a, k) == IF k = 0 THEN <<>> ELSE BMulSmallC(a, k, 0)

RECURSIVE BMul(_, _)
BMul(a, b) ==
    IF a = <<>> \/ b = <<>> THEN <<>>
    ELSE BAdd(BMulSmall(a, Head(b)),
              LET r == BMul(a, Tail(b)) IN IF r = <<>> THEN r ELSE <<0>> \o r)

BZeros(n) == [i \in 1..n |-> 0]

\* a * 2^k
BShl(a, k) ==
    IF a = <<>> THEN a
    ELSE BZeros(k \div 15) \o BMulSmall(a, 2^(k % 15))

\* floor(a / 2^j) for 0 <= j < 15, limb by limb from the top
RECURSIVE BShrSmall(_, _)
BShrSmall(a, j) ==
    IF a = <<>> THEN a
    ELSE LET hi == IF Len(a) > 1 THEN a[2] % (2^j) ELSE 0
         IN  <<(Head(a) \div (2^j)) + hi * (2^(15 - j))>> \o BShrSmall(Tail(a), j)

\* floor(a / 2^k)
BShr(a, k) ==
    IF k \div 15 >= Len(a) THEN <<>>
    ELSE BTrim(BShrSmall(SubSeq(a, (k \div 15) + 1, Len(a)), k % 15))

\* a mod 2^k
BLowBits(a, k) ==
    IF k \div 15 >= Len(a) THEN a
    ELSE BTrim(SubSeq(a, 1, k \div 15) \o <<a[(k \div 15) + 1] % (2^(k % 15))>>)

RECURSIVE IntBitLen(_)
IntBitLen(n) == IF n = 0 THEN 0 ELSE 1 + IntBitLen(n \div 2)

BBitLen(a) == IF a = <<>> THEN 0 ELSE 15 * (Len(a) - 1) + IntBitLen(a[Len(a)])

BBit(a, i) ==
    IF i \div 15 >= Len(a) THEN 0 ELSE (a[(i \div 15) + 1] \div (2^(i % 15))) % 2

BIsOdd(a) == a # <<>> /\ a[1] % 2 = 1

\* the largest digit d with d*b <= r, searched downwards from an estimate
\* d >= the digit
RECURSIVE BDigitFrom(_, _, _)
BDigitFrom(r, b, d) ==
    IF BCmp(BMulSmall(b, d), r) <= 0 THEN d ELSE BDigitFrom(r, b, d - 1)

\* the digit floor(r / b) for r < Base*b and b with a top limb >= Base/2:
\* the two top limbs of r over the top limb of b overestimate it by at most 2
BDigit(r, b) ==
    LET n    == Len(b)
        rtop == (IF Len(r) > n THEN r[n + 1] * Base ELSE 0)
                + (IF Len(r) >= n THEN r[n] ELSE 0)
        est  == rtop \div b[n]
    IN  BDigitFrom(r, b, IF est > Base - 1 THEN Base - 1 ELSE est)

\* schoolbook long division, one limb of a at a time from the top: limbs
\* i .. 1 of a are still to be brought down, q and r are the quotient and
\* remainder of the limbs above
RECURSIVE BDivModFrom(_, _, _, _, _)
BDivModFrom(a, b, i, q, r) ==
    IF i = 0 THEN [q |-> BTrim(q), r |-> r]
    ELSE LET r2 == BTrim(<<a[i]>> \o r)
             d  == BDigit(r2, b)
         IN  IF d = 0 THEN BDivModFrom(a, b, i - 1, <<0>> \o q, r2)
             ELSE BDivModFrom(a, b, i - 1, <<d>> \o q, BSub(r2, BMulSmall(b, d)))

\* [q, r] with a = q*b + r, 0 <= r < b, for b > 0; a and b are first scaled
\* by 2^sh so that the top limb of b is at least Base/2
BDivMod(a, b) ==
    LET sh == 15 * Len(b) - BBitLen(b)
        qr == BDivModFrom(BShl(a, sh), BShl(b, sh), Len(BShl(a, sh)), <<>>, <<>>)
    IN  [q |-> qr.q, r |-> BShr(qr.r, sh)]

\* floor(sqrt(t)) for an Int t < 2^30, by Newton's iteration from x >= the root
RECURSIVE IntSqrtFrom(_, _)
IntSqrtFrom(t, x) ==
    LET y == (x + t \div x) \div 2
    IN  IF y >= x THEN x ELSE IntSqrtFrom(t, y)

\* floor(sqrt(n)), by Newton's iteration from x >= floor(sqrt(n))
RECURSIVE BSqrtFrom(_, _)
BSqrtFrom(n, x) ==
    LET y == BShr(BAdd(x, BDivMod(n, x).q), 1)
    IN  IF BCmp(y, x) >= 0 THEN x ELSE BSqrtFrom(n, y)

\* floor(sqrt(n)) for n of at least 30 bits: the iteration starts from the
\* root of the top 28 or 29 bits of n, rounded up and scaled back
BSqrt(n) ==
    LET L   == BBitLen(n)
        k   == L - 28 - (L % 2)
        top == BShr(n, k)
        t   == top[1] + (IF Len(top) > 1 THEN top[2] * Base ELSE 0)
    IN  BSqrtFrom(n, BShl(BFromInt(IntSqrtFrom(t, Base) + 1), k \div 2))

(***************************************************************************)
(* f64: IEEE-754 binary64.  A finite value is (-1)^s * m * 2^e with the    *)
(* canonical mantissa 2^52 <= m < 2^53 (normal, EMin <= e <= EMax) or      *)
(* m < 2^52 and e = EMin (subnormal); zero is m = <<>>, e = 0 with its     *)
(* sign.  All NaNs are one value.  Every operation computes the exact      *)
(* result and rounds it once, to nearest, ties to even.                    *)
(***************************************************************************)
MantBits == 53
EMin == -1074
EMax == 971

NaN == [c |-> "nan", s |-> 0, m |-> <<>>, e |-> 0]
Inf(s) == [c |-> "inf", s |-> s, m |-> <<>>, e |-> 0]
Zero(s) == [c |-> "fin", s |-> s, m |-> <<>>, e |-> 0]

IsNaN(x) == x.c = "nan"
IsInf(x) == x.c = "inf"
IsFinite(x) == x.c = "fin"
IsZero(x) == x.c = "fin" /\ x.m = <<>>

Pack(s, m, e) ==
    IF m = <<>> THEN Zero(s)
    ELSE IF e > EMax THEN Inf(s)
    ELSE [c |-> "fin", s |-> s, m |-> m, e |-> e]

\* the f64 nearest to (-1)^s * (n + f) * 2^e, where 0 <= f < 1 and f > 0 iff sticky
RoundPack(s, n, e, sticky) ==
    IF n = <<>> THEN Zero(s)
    ELSE LET L  == BBitLen(n)
             e1 == IF e + L - MantBits < EMin THEN EMin ELSE e + L - MantBits
             sh == e1 - e
         IN  IF sh <= 0 THEN Pack(s, BShl(n, -sh), e1)
             ELSE LET q  == BShr(n, sh)
                      c  == BCmp(BLowBits(n, sh), BShl(<<1>>, sh - 1))
                      up == c > 0 \/ (c = 0 /\ (sticky \/ BIsOdd(q)))
                      q1 == IF up THEN BAdd(q, <<1>>) ELSE q
                  IN  IF BBitLen(q1) > MantBits THEN Pack(s, BShr(q1, 1), e1 + 1)
                      ELSE Pack(s, q1, e1)

\* the f64 nearest to (-1)^s * (n / d) * 2^e, for d > 0
RoundRat(s, n, d, e) ==
    IF n = <<>> THEN Zero(s)
    ELSE LET k  == IF MantBits + 3 + BBitLen(d) - BBitLen(n) > 0
                   THEN MantBits + 3 + BBitLen(d) - BBitLen(n) ELSE 0
             qr == BDivMod(BShl(n, k), d)
         IN  RoundPack(s, qr.q, e - k, qr.r # <<>>)

\* a decimal literal of the source: (-1)^s * digits / 10^scale, scale <= 9
FromDec(s, digits, scale) == RoundRat(s, BFromInt(digits), BFromInt(10^scale), 0)

FNeg(a) == IF IsNaN(a) THEN a ELSE [a EXCEPT !.s = 1 - a.s]

FMul(a, b) ==
    LET sx == (a.s + b.s) % 2
    IN  IF IsNaN(a) \/ IsNaN(b) THEN NaN
        ELSE IF IsInf(a) \/ IsInf(b)
             THEN (IF IsZero(a) \/ IsZero(b) THEN NaN ELSE Inf(sx))
        ELSE RoundPack(sx, BMul(a.m, b.m), a.e + b.e, FALSE)

FDiv(a, b) ==
    LET sx == (a.s + b.s) % 2
    IN  IF IsNaN(a) \/ IsNaN(b) THEN NaN
        ELSE IF IsInf(a) THEN (IF IsInf(b) THEN NaN ELSE Inf(sx))
        ELSE IF IsInf(b) THEN Zero(sx)
        ELSE IF IsZero(b) THEN (IF IsZero(a) THEN NaN ELSE Inf(sx))
        ELSE RoundRat(sx, a.m, b.m, a.e - b.e)

FAdd(a, b) ==
    IF IsNaN(a) \/ IsNaN(b) THEN NaN
    ELSE IF IsInf(a) THEN (IF IsInf(b) /\ a.s # b.s THEN NaN ELSE a)
    ELSE IF IsInf(b) THEN b
    ELSE IF IsZero(a) /\ IsZero(b) THEN Zero(IF a.s = b.s THEN a.s ELSE 0)
    ELSE IF IsZero(a) THEN b
    ELSE IF IsZero(b) THEN a
    ELSE IF a.e - b.e > MantBits + 11 THEN a
    ELSE IF b.e - a.e > MantBits + 11 THEN b
    ELSE LET e  == IF a.e < b.e THEN a.e ELSE b.e
             na == BShl(a.m, a.e - e)
             nb == BShl(b.m, b.e - e)
             c  == BCmp(na, nb)
         IN  IF a.s = b.s THEN RoundPack(a.s, BAdd(na, nb), e, FALSE)
             ELSE IF c = 0 THEN Zero(0)
             ELSE IF c > 0 THEN RoundPack(a.s, BSub(na, nb), e, FALSE)
             ELSE RoundPack(b.s, BSub(nb, na), e, FALSE)

FSub(a, b) == FAdd(a, FNeg(b))

FSqrt(a) ==
    IF IsNaN(a) THEN NaN
    ELSE IF IsZero(a) THEN a
    ELSE IF a.s = 1 THEN NaN
    ELSE IF IsInf(a) THEN a
    ELSE LET k0 == IF 2 * MantBits + 4 - BBitLen(a.m) > 0
                   THEN 2 * MantBits + 4 - BBitLen(a.m) ELSE 0
             k  == k0 + ((a.e - k0) % 2)
             n  == BShl(a.m, k)
             r  == BSqrt(n)
         IN  RoundPack(0, r, (a.e - k) \div 2, BMul(r, r) # n)

\* f64::powi for b >= 0, as compiler-rt's __powidf2 computes it:
\*   r = 1; loop { if b & 1 { r *= a }; b /= 2; if b == 0 { break }; a *= a }
RECURSIVE PowiLoop(_, _, _)
PowiLoop(a, b, r) ==
    LET r1 == IF b % 2 = 1 THEN FMul(r, a) ELSE r
    IN  IF b \div 2 = 0 THEN r1 ELSE PowiLoop(FMul(a, a), b \div 2, r1)

FOne == FromDec(0, 1, 0)

FPowi(a, b) == PowiLoop(a, b, FOne)

(***************************************************************************)
(* The f64 literals of equations.rs, each the f64 nearest to its decimal.  *)
(***************************************************************************)
Lit_49_0223 == FromDec(0, 490223, 4)
Lit_459_67 == FromDec(0, 45967, 2)
Lit_450800 == FromDec(0, 450800, 0)
Lit_171_89 == FromDec(0, 17189, 2)
Lit_17_6 == FromDec(0, 176, 1)
Lit_0_01 == FromDec(0, 1, 2)
Lit_0_0024 == FromDec(0, 24, 4)
Lit_0_032 == FromDec(0, 32, 3)
Lit_30 == FromDec(0, 30, 0)
Lit_2800 == FromDec(0, 2800, 0)
Lit_460 == FromDec(0, 460, 0)
Lit_59 == FromDec(0, 59, 0)
Lit_29_92 == FromDec(0, 2992, 2)
Lit_7000 == FromDec(0, 7000, 0)

(***************************************************************************)
(* The named constants of constants.rs.                                    *)
(***************************************************************************)
STANDARD_GRAVITY == FromDec(0, 32174, 3)
SPEED_OF_SOUND_SEA_LEVEL == FromDec(0, 111628, 2)
AIR_DENSITY_SEA_LEVEL == FromDec(0, 765, 4)
STANDARD_PRESSURE == FromDec(0, 2992, 2)
STANDARD_TEMPERATURE == FromDec(0, 59, 0)

(***************************************************************************)
(* Plausible slips in the equation functions, each one edit away from the  *)
(* source; the properties below are checked to tell each of them from the  *)
(* function it departs from.                                               *)
(***************************************************************************)
\* Rankine offset rounded to 460
SpeedOfSound_calculate_offset460(temperature) ==
    FMul(Lit_49_0223, FSqrt(FAdd(temperature, Lit_460)))

\* velocity not squared
KineticEnergy_calculate_unsquared(bullet_weight, velocity) ==
    FDiv(FMul(bullet_weight, velocity), Lit_450800)

\* radius over movement
ApertureSightCalibration_calculate_inverted(sight_movement_twenty_clicks, sight_radius) ==
    FMul(Lit_171_89, FDiv(sight_radius, sight_movement_twenty_clicks))

\* product in place of the quotient
FormFactor_calculate_product(drag_coefficient, standard_bullet_drag_coefficient) ==
    FMul(drag_coefficient, standard_bullet_drag_coefficient)

\* muzzle velocity over distance
LagTime_calculate_inverted(actual_time_of_flight, distance, muzzle_velocity) ==
    FSub(actual_time_of_flight, FDiv(muzzle_velocity, distance))

\* exponent 1 in place of 1 / 3
GyroscopicStability_velocity_correction_linear(muzzle_velocity, gyro_stability) ==
    FMul(gyro_stability, FPowi(FDiv(muzzle_velocity, Lit_2800), 1))

\* 459.67 in the numerator, 460 in the denominator
GyroscopicStability_atmospheric_correction_offset(air_temp, air_pressure, gyro_stability) ==
    FMul(gyro_stability,
         FMul(FDiv(FAdd(air_temp, Lit_459_67), FAdd(Lit_59, Lit_460)),
              FDiv(Lit_29_92, air_pressure)))

\* form factor multiplied in, not divided out
BallisticCoefficient_calculate_times(bullet_mass, bullet_diameter, form_factor) ==
    FMul(FDiv(FDiv(bullet_mass, Lit_7000), FPowi(bullet_diameter, 2)), form_factor)

(***************************************************************************)
(* The equation functions of equations.rs.  A quantity is its f64 (the     *)
(* tuple structs add nothing to the value); each operator is the body of   *)
(* the function, operation by operation, in Rust's evaluation order.       *)
(***************************************************************************)
SpeedOfSound_calculate(temperature) ==
    FMul(Lit_49_0223, FSqrt(FAdd(temperature, Lit_459_67)))

KineticEnergy_calculate(bullet_weight, velocity) ==
    FDiv(FMul(bullet_weight, FPowi(velocity, 2)), Lit_450800)

ApertureSightCalibration_calculate(sight_movement_twenty_clicks, sight_radius) ==
    FMul(Lit_171_89, FDiv(sight_movement_twenty_clicks, sight_radius))

FormFactor_calculate(drag_coefficient, standard_bullet_drag_coefficient) ==
    FDiv(drag_coefficient, standard_bullet_drag_coefficient)

VelocityProjection_calculate(bullet_weight_1, bullet_weight_2, bullet_velocity_1) ==
    FMul(bullet_velocity_1, FSqrt(FDiv(bullet_weight_1, bullet_weight_2)))

LagTime_calculate(actual_time_of_flight, distance, muzzle_velocity) ==
    LET vacuum_time_of_flight == FDiv(distance, muzzle_velocity)
        lag_time == FSub(actual_time_of_flight, vacuum_time_of_flight)
    IN  lag_time

WindDeflection_calculate(lag_time, crosswind_speed) ==
    FMul(FMul(Lit_17_6, crosswind_speed), lag_time)

AerodynamicJump_calculate(gyro_stability, bullet_length) ==
    FAdd(FSub(FMul(Lit_0_01, gyro_stability), FMul(Lit_0_0024, bullet_length)),
         Lit_0_032)

GyroscopicStability_calculate(bullet_mass, rifling_twist, bullet_diameter, bullet_length) ==
    FDiv(FMul(Lit_30, bullet_mass),
         FMul(FMul(FMul(FPowi(rifling_twist, 2), FPowi(bullet_diameter, 3)),
                   bullet_length),
              FAdd(FOne, FPowi(bullet_length, 2))))

\* the exponent 1 / 3 is a division of two i32 literals
GyroscopicStability_velocity_correction(muzzle_velocity, gyro_stability) ==
    FMul(gyro_stability, FPowi(FDiv(muzzle_velocity, Lit_2800), 1 \div 3))

GyroscopicStability_atmospheric_correction(air_temp, air_pressure, gyro_stability) ==
    FMul(gyro_stability,
         FMul(FDiv(FAdd(air_temp, Lit_460), FAdd(Lit_59, Lit_460)),
              FDiv(Lit_29_92, air_pressure)))

BallisticCoefficient_calculate(bullet_mass, bullet_diameter, form_factor) ==
    FDiv(FDiv(bullet_mass, Lit_7000),
         FMul(FPowi(bullet_diameter, 2), form_factor))

(***************************************************************************)
(* The caller.  The library keeps no state of its own; the state is the    *)
(* chain of calls a caller has made so far, each call a record of the      *)
(* function, its arguments and its result.  A chain starts with a call     *)
(* that takes base quantities only (or with a derived quantity built       *)
(* straight from an f64, which the public tuple-struct field allows) and   *)
(* goes on with the functions that consume the quantity the previous call  *)
(* returned.                                                               *)
(***************************************************************************)
VARIABLES calls

vars == <<calls>>

\* raw values range over the multiples of 1/2 up to MaxNum/2 in magnitude
MaxNum == 2
\* the calls that may follow the first call of a chain
MaxChain == 2

Tiny == [c |-> "fin", s |-> 0, m |-> BShl(<<1>>, MantBits - 1), e |-> 0 - 600 - (MantBits - 1)]
Huge == [c |-> "fin", s |-> 0, m |-> BShl(<<1>>, MantBits - 1), e |-> 600 - (MantBits - 1)]

Specials == {Zero(0), Zero(1), Inf(0), Inf(1), NaN}
Grid == {FromDec(s, 5 * k, 1) : s \in {0, 1}, k \in 1..MaxNum}
RawValues == Specials \cup Grid

\* the values the caller passes for each base quantity type
Temperatures == {STANDARD_TEMPERATURE, FromDec(0, 70, 0), FromDec(1, 460, 0)}
Pressures == {STANDARD_PRESSURE, Zero(0)}
Velocities == {Lit_2800, FromDec(0, 3000, 0), Zero(0), Zero(1)}
BulletMasses == {FromDec(0, 150, 0), Zero(0)}
RiflingTwists == {FromDec(0, 10, 0), Zero(0)}
BulletDiameters == {FromDec(0, 308, 3), Zero(0), Tiny}
BulletLengths == {FromDec(0, 12, 1), Zero(0)}
WindSpeeds == {FromDec(0, 10, 0), Zero(0), FromDec(1, 10, 0)}
TimesOfFlight == {FromDec(0, 15, 1), Zero(0)}
Distances == RawValues
DragCoefficients == RawValues \cup {Tiny, Huge}
SightCalibrations == RawValues \cup {FromDec(0, 30, 0)}

Call(fn, args, res) == [fn |-> fn, args |-> args, res |-> res]

Last == calls[Len(calls)]

\* the quantity type a call returns
OutType(fn) ==
    CASE fn \in {"GyroscopicStability", "GyroscopicStability::calculate",
                 "GyroscopicStability::velocity_correction",
                 "GyroscopicStability::atmospheric_correction"} -> "GyroscopicStability"
      [] fn \in {"LagTime", "LagTime::calculate"} -> "LagTime"
      [] fn \in {"FormFactor", "FormFactor::calculate"} -> "FormFactor"
      [] OTHER -> fn

\* the caller holds a quantity of type ty and may pass it on
Holds(ty) == calls # <<>> /\ Len(calls) <= MaxChain /\ OutType(Last.fn) = ty

Init == calls = <<>>

\* the tuple-struct constructors of the derived quantities consumed downstream
NewGyroscopicStability ==
    /\ calls = <<>>
    /\ \E x \in RawValues : calls' = <<Call("GyroscopicStability", [value |-> x], x)>>

NewLagTime ==
    /\ calls = <<>>
    /\ \E x \in RawValues : calls' = <<Call("LagTime", [value |-> x], x)>>

NewFormFactor ==
    /\ calls = <<>>
    /\ \E x \in RawValues : calls' = <<Call("FormFactor", [value |-> x], x)>>

CallSpeedOfSound ==
    /\ calls = <<>>
    /\ \E t \in Temperatures :
        calls' = <<Call("SpeedOfSound::calculate", [temperature |-> t],
              SpeedOfSound_calculate(t))>>

CallKineticEnergy ==
    /\ calls = <<>>
    /\ \E w \in BulletMasses, v \in Velocities :
        calls' = <<Call("KineticEnergy::calculate", [bullet_weight |-> w, velocity |-> v],
              KineticEnergy_calculate(w, v))>>

CallApertureSightCalibration ==
    /\ calls = <<>>
    /\ \E m \in SightCalibrations, r \in SightCalibrations :
        calls' = <<Call("ApertureSightCalibration::calculate",
              [sight_movement_twenty_clicks |-> m, sight_radius |-> r],
              ApertureSightCalibration_calculate(m, r))>>

CallFormFactor ==
    /\ calls = <<>>
    /\ \E cd \in DragCoefficients, std \in DragCoefficients :
        calls' = <<Call("FormFactor::calculate",
              [drag_coefficient |-> cd, standard_bullet_drag_coefficient |-> std],
              FormFactor_calculate(cd, std))>>

CallVelocityProjection ==
    /\ calls = <<>>
    /\ \E w1 \in BulletMasses, w2 \in BulletMasses, v \in Velocities :
        calls' = <<Call("VelocityProjection::calculate",
              [bullet_weight_1 |-> w1, bullet_weight_2 |-> w2, bullet_velocity_1 |-> v],
              VelocityProjection_calculate(w1, w2, v))>>

CallLagTime ==
    /\ calls = <<>>
    /\ \E t \in TimesOfFlight, d \in Distances, v \in Velocities :
        calls' = <<Call("LagTime::calculate",
              [actual_time_of_flight |-> t, distance |-> d, muzzle_velocity |-> v],
              LagTime_calculate(t, d, v))>>

CallGyroscopicStability ==
    /\ calls = <<>>
    /\ \E m \in BulletMasses, tw \in RiflingTwists, d \in BulletDiameters, l \in BulletLengths :
        calls' = <<Call("GyroscopicStability::calculate",
              [bullet_mass |-> m, rifling_twist |-> tw, bullet_diameter |-> d,
               bullet_length |-> l],
              GyroscopicStability_calculate(m, tw, d, l))>>

CallWindDeflection ==
    /\ Holds("LagTime")
    /\ \E w \in WindSpeeds :
        calls' = Append(calls, Call("WindDeflection::calculate", [lag_time |-> Last.res, crosswind_speed |-> w],
             WindDeflection_calculate(Last.res, w)))

CallAerodynamicJump ==
    /\ Holds("GyroscopicStability")
    /\ \E l \in BulletLengths :
        calls' = Append(calls, Call("AerodynamicJump::calculate", [gyro_stability |-> Last.res, bullet_length |-> l],
             AerodynamicJump_calculate(Last.res, l)))

CallVelocityCorrection ==
    /\ Holds("GyroscopicStability")
    /\ \E v \in Velocities :
        calls' = Append(calls, Call("GyroscopicStability::velocity_correction",
             [muzzle_velocity |-> v, gyro_stability |-> Last.res],
             GyroscopicStability_velocity_correction(v, Last.res)))

CallAtmosphericCorrection ==
    /\ Holds("GyroscopicStability")
    /\ \E t \in Temperatures, p \in Pressures :
        calls' = Append(calls, Call("GyroscopicStability::atmospheric_correction",
             [air_temp |-> t, air_pressure |-> p, gyro_stability |-> Last.res],
             GyroscopicStability_atmospheric_correction(t, p, Last.res)))

CallBallisticCoefficient ==
    /\ Holds("FormFactor")
    /\ \E m \in BulletMasses, d \in BulletDiameters :
        calls' = Append(calls, Call("BallisticCoefficient::calculate",
             [bullet_mass |-> m, bullet_diameter |-> d, form_factor |-> Last.res],
             BallisticCoefficient_calculate(m, d, Last.res)))

Next ==
    \/ NewGyroscopicStability
    \/ NewLagTime
    \/ NewFormFactor
    \/ CallSpeedOfSound
    \/ CallKineticEnergy
    \/ CallApertureSightCalibration
    \/ CallFormFactor
    \/ CallVelocityProjection
    \/ CallLagTime
    \/ CallGyroscopicStability
    \/ CallWindDeflection
    \/ CallAerodynamicJump
    \/ CallVelocityCorrection
    \/ CallAtmosphericCorrection
    \/ CallBallisticCoefficient

Spec == Init /\ [][Next]_vars

(***************************************************************************)
(* Exact comparisons of f64 values with decimals, for the numeric claims.  *)
(***************************************************************************)
\* digits hi * 10^4 + lo as a multi-limb natural
BDec(hi, lo) == BAdd(BMulSmall(BFromInt(hi), 10^4), BFromInt(lo))

\* the sign of |x| * mult - digits / 10^scale, computed exactly, for finite x
CmpDecMul(x, mult, digits, scale) ==
    BCmp(BMul(BMul(BShl(x.m, IF x.e > 0 THEN x.e ELSE 0), mult), BFromInt(10^scale)),
         BShl(digits, IF x.e < 0 THEN 0 - x.e ELSE 0))

\* lo / 10^scale <= x * mult <= hi / 10^scale, for mult > 0
Within(x, mult, lo, hi, scale) ==
    /\ IsFinite(x)
    /\ x.s = 0
    /\ CmpDecMul(x, mult, lo, scale) >= 0
    /\ CmpDecMul(x, mult, hi, scale) <= 0

\* the calls of the chain made to fn
CallsOf(fn) == {calls[i] : i \in {j \in 1..Len(calls) : calls[j].fn = fn}}

VelocityCorrection == "GyroscopicStability::velocity_correction"
AtmosphericCorrection == "GyroscopicStability::atmospheric_correction"

AtStandard(c) ==
    c.args.air_temp = STANDARD_TEMPERATURE /\ c.args.air_pressure = STANDARD_PRESSURE

(***************************************************************************)
(* C1                                                                      *)
(***************************************************************************)
BCube(a) == BMul(a, BMul(a, a))

BAbsDiff(a, b) == IF BCmp(a, b) >= 0 THEN BSub(a, b) ELSE BSub(b, a)

\* (r / s)^3 = v / 2800 to a relative error of 10^-9, computed exactly:
\* r^3 * 2800 against s^3 * v, both scaled to the common exponent e0
CubeOfRatioIs(r, s, v) ==
    /\ IsFinite(r) /\ ~IsZero(r) /\ r.s = s.s
    /\ LET ea == 3 * r.e
           eb == 3 * s.e + v.e
           e0 == IF ea < eb THEN ea ELSE eb
           a  == BShl(BMul(BCube(r.m), BFromInt(2800)), ea - e0)
           b  == BShl(BMul(BCube(s.m), v.m), eb - e0)
       IN  BCmp(BMul(BAbsDiff(a, b), BFromInt(10^9)), b) <= 0

\* C1: velocity_correction(v, s) returns s * (v/2800)^(1/3) with a true cube
\* root: for every finite nonzero s and every finite v > 0 the cube of
\* (result / s) equals v / 2800 (to 10^-9, far above f64 rounding), so the
\* result differs from s whenever v differs from 2800.
C1_CubeRootLaw ==
    \A c \in CallsOf(VelocityCorrection) :
        LET v == c.args.muzzle_velocity
            s == c.args.gyro_stability
        IN  (IsFinite(v) /\ ~IsZero(v) /\ v.s = 0 /\ IsFinite(s) /\ ~IsZero(s))
                => /\ CubeOfRatioIs(c.res, s, v)
                   /\ (v # Lit_2800 => c.res # s)

(***************************************************************************)
(* C2                                                                      *)
(***************************************************************************)
\* C2: atmospheric_correction is a no-op at standard temperature and
\* pressure: with air_temp = 59 and air_pressure = 29.92 it returns exactly
\* the gyro_stability it was given, whatever that value is.
C2_NoOpAtStandard ==
    \A c \in CallsOf(AtmosphericCorrection) :
        AtStandard(c) => c.res = c.args.gyro_stability

C2_Witness ==
    /\ calls # <<>>
    /\ Last.fn = AtmosphericCorrection
    /\ AtStandard(Last)
    /\ IsFinite(Last.args.gyro_stability)
    /\ ~IsZero(Last.args.gyro_stability)
    /\ Last.args.gyro_stability # FOne
    /\ Last.res = Last.args.gyro_stability

(***************************************************************************)
(* C3                                                                      *)
(***************************************************************************)
ScenarioBullet ==
    [bullet_mass |-> FromDec(0, 150, 0), rifling_twist |-> FromDec(0, 10, 0),
     bullet_diameter |-> FromDec(0, 308, 3), bullet_length |-> FromDec(0, 12, 1)]

\* the chain calculate(scenario bullet), velocity_correction(3000, .),
\* atmospheric_correction(59, 29.92, .)
ScenarioChain ==
    /\ Len(calls) = 3
    /\ calls[1].fn = "GyroscopicStability::calculate"
    /\ calls[1].args = ScenarioBullet
    /\ calls[2].fn = VelocityCorrection
    /\ calls[2].args.muzzle_velocity = FromDec(0, 3000, 0)
    /\ calls[3].fn = AtmosphericCorrection
    /\ AtStandard(calls[3])

SpeedOfSoundAt59 ==
    {c \in CallsOf("SpeedOfSound::calculate") : c.args.temperature = Lit_59}

\* C4: SpeedOfSound::calculate(59.0) is 49.0223 * sqrt(59 + 459.67), which
\* is 1116.449922 to within 10^-6 (1116.45 to two decimals); it is about
\* 0.17 above the constant SPEED_OF_SOUND_SEA_LEVEL = 1116.28.
C4_SpeedOfSoundAt59 ==
    \A c \in SpeedOfSoundAt59 :
        /\ Within(c.res, <<1>>, BFromInt(1116449921), BFromInt(1116449923), 6)
        /\ c.res # SPEED_OF_SOUND_SEA_LEVEL

C4_Witness ==
    /\ calls # <<>>
    /\ Last \in SpeedOfSoundAt59
    /\ Within(Last.res, <<1>>, BFromInt(111644), BFromInt(111645), 2)

\* C4 as stated: SpeedOfSound::calculate(59.0) is within 10^-6 of 1116.28.
C4_AsStated ==
    \A c \in SpeedOfSoundAt59 :
        Within(c.res, <<1>>, BFromInt(1116279999), BFromInt(1116280001), 6)

(***************************************************************************)
(* C5                                                                      *)
(***************************************************************************)
KineticEnergyScenario ==
    {c \in CallsOf("KineticEnergy::calculate") :
        /\ c.args.bullet_weight = FromDec(0, 150, 0)
        /\ c.args.velocity = Lit_2800}

\* C5: KineticEnergy::calculate(150, 2800) is 150 * 2800^2 / 450800, which
\* is 2608.695652 to within 10^-6 (2608.70 to two decimals).
C5_KineticEnergyScenario ==
    \A c \in KineticEnergyScenario :
        /\ Within(c.res, <<1>>, BDec(260869, 5651), BDec(260869, 5653), 6)
        /\ Within(c.res, BFromInt(450800), BFromInt(1175999999), BFromInt(1176000001), 0)

C5_Witness ==
    /\ calls # <<>>
    /\ Last \in KineticEnergyScenario
    /\ Within(Last.res, <<1>>, BFromInt(260869), BFromInt(260870), 2)

\* C5 as stated: KineticEnergy::calculate(150, 2800) is 2609.73 to two
\* decimals, that is within 0.005 of 2609.73.
C5_AsStated ==
    \A c \in KineticEnergyScenario :
        Within(c.res, <<1>>, BFromInt(2609725), BFromInt(2609735), 3)

(***************************************************************************)
(* C7                                                                      *)
(***************************************************************************)
FormFactorOfEqual ==
    {c \in CallsOf("FormFactor::calculate") :
        c.args.drag_coefficient = c.args.standard_bullet_drag_coefficient}

\* C7: FormFactor::calculate(x, x) is exactly 1.0 for every finite nonzero
\* x; for x infinite or NaN (and for x zero) it is NaN.
C7_FormFactorOfEqual ==
    \A c \in FormFactorOfEqual :
        LET x == c.args.drag_coefficient
        IN  /\ (IsFinite(x) /\ ~IsZero(x)) => c.res = FOne
            /\ (~IsFinite(x) \/ IsZero(x)) => IsNaN(c.res)

C7_Witness ==
    /\ calls # <<>>
    /\ Last \in FormFactorOfEqual
    /\ IsFinite(Last.args.drag_coefficient)
    /\ ~IsZero(Last.args.drag_coefficient)
    /\ Last.args.drag_coefficient # FOne
    /\ Last.res = FOne

\* C7 as stated: FormFactor::calculate(x, x) is 1.0 for every nonzero x.
C7_AsStated ==
    \A c \in FormFactorOfEqual :
        ~IsZero(c.args.drag_coefficient) => c.res = FOne

(***************************************************************************)
(* C8                                                                      *)
(***************************************************************************)
\* the calls of fn whose argument arg, a value of a type produced by another
\* equation function, is infinite or NaN
NonFiniteInto(fn, arg) == {c \in CallsOf(fn) : ~IsFinite(c.args[arg])}

PropagatesThrough(fn, arg) == \A c \in NonFiniteInto(fn, arg) : ~IsFinite(c.res)

\* C8: an infinite or NaN LagTime given to WindDeflection::calculate, or
\* GyroscopicStability given to AerodynamicJump::calculate,
\* velocity_correction or atmospheric_correction, with finite other
\* arguments, gives a non-finite result.  BallisticCoefficient::calculate
\* gives NaN for a NaN form_factor, and for an infinite form_factor when
\* bullet_diameter^2 is zero in f64; for an infinite form_factor and a
\* nonzero bullet_diameter^2 it gives a (finite) zero.
C8_NonFinitePropagation ==
    /\ PropagatesThrough("WindDeflection::calculate", "lag_time")
    /\ PropagatesThrough("AerodynamicJump::calculate", "gyro_stability")
    /\ PropagatesThrough(VelocityCorrection, "gyro_stability")
    /\ PropagatesThrough(AtmosphericCorrection, "gyro_stability")
    /\ \A c \in NonFiniteInto("BallisticCoefficient::calculate", "form_factor") :
           IF IsNaN(c.args.form_factor) \/ IsZero(FPowi(c.args.bullet_diameter, 2))
           THEN IsNaN(c.res)
           ELSE IsZero(c.res)

C8_Witness ==
    /\ Len(calls) = 2
    /\ calls[1].fn = "FormFactor::calculate"
    /\ IsFinite(calls[1].args.drag_coefficient)
    /\ IsInf(calls[1].res)
    /\ calls[2].fn = "BallisticCoefficient::calculate"
    /\ calls[2].args.form_factor = calls[1].res
    /\ ~IsZero(calls[2].args.bullet_mass)
    /\ IsZero(calls[2].res)

\* C8 as stated: the result is non-finite through all five downstream
\* functions, BallisticCoefficient::calculate included.
C8_AsStated ==
    /\ PropagatesThrough("WindDeflection::calculate", "lag_time")
    /\ PropagatesThrough("AerodynamicJump::calculate", "gyro_stability")
    /\ PropagatesThrough(VelocityCorrection, "gyro_stability")
    /\ PropagatesThrough(AtmosphericCorrection, "gyro_stability")
    /\ PropagatesThrough("BallisticCoefficient::calculate", "form_factor")

(***************************************************************************)
(* C9                                                                      *)
(***************************************************************************)
ZeroRadius ==
    {c \in CallsOf("ApertureSightCalibration::calculate") : IsZero(c.args.sight_radius)}

\* C9: ApertureSightCalibration::calculate with sight_radius = 0 returns an
\* infinity when sight_movement_twenty_clicks is nonzero and not NaN, with
\* the sign of sight_movement_twenty_clicks for a radius of +0.0 and the
\* opposite sign for a radius of -0.0; it returns NaN when
\* sight_movement_twenty_clicks is zero or NaN.  It always returns a value.
C9_ZeroRadius ==
    \A c \in ZeroRadius :
        LET n == c.args.sight_movement_twenty_clicks
            r == c.args.sight_radius
        IN  IF IsNaN(n) \/ IsZero(n)
            THEN IsNaN(c.res)
            ELSE c.res = Inf((n.s + r.s) % 2)

C9_Witness ==
    /\ calls # <<>>
    /\ Last \in ZeroRadius
    /\ Last.args.sight_radius = Zero(0)
    /\ IsFinite(Last.args.sight_movement_twenty_clicks)
    /\ Last.args.sight_movement_twenty_clicks.s = 1
    /\ Last.res = Inf(1)

\* C9 as stated: with sight_radius = 0 the result is an infinity with the
\* sign of sight_movement_twenty_clicks, for every sight_movement_twenty_clicks.
C9_AsStated ==
    \A c \in ZeroRadius :
        c.args.sight_radius = Zero(0) =>
            /\ IsInf(c.res)
            /\ ~IsNaN(c.args.sight_movement_twenty_clicks) =>
                   c.res.s = c.args.sight_movement_twenty_clicks.s

(***************************************************************************)
(* C10                                                                     *)
(***************************************************************************)
ZeroMuzzleVelocity ==
    {c \in CallsOf("LagTime::calculate") :
        IsZero(c.args.muzzle_velocity) /\ IsFinite(c.args.actual_time_of_flight)}

\* C10: LagTime::calculate with muzzle_velocity = 0 and a finite
\* actual_time_of_flight never returns a finite value: it returns NaN when
\* distance is 0 and, when distance is a nonzero number, an infinity whose
\* sign is fixed by the sign of distance (opposite to it for a muzzle
\* velocity of +0.0, equal to it for -0.0).
C10_ZeroMuzzleVelocity ==
    \A c \in ZeroMuzzleVelocity :
        LET d == c.args.distance
            v == c.args.muzzle_velocity
        IN  /\ ~IsFinite(c.res)
            /\ IsZero(d) => IsNaN(c.res)
            /\ (~IsZero(d) /\ ~IsNaN(d)) => c.res = Inf(1 - ((d.s + v.s) % 2))

C10_Witness ==
    /\ calls # <<>>
    /\ Last \in ZeroMuzzleVelocity
    /\ IsFinite(Last.args.distance)
    /\ ~IsZero(Last.args.distance)
    /\ ~IsZero(Last.args.actual_time_of_flight)
    /\ IsInf(Last.res)

====
